---- MODULE Spec2Model ----
(***************************************************************************)
(* Model of the todo HTTP service of src/main.go: the handlers            *)
(* homeHandler, fetchTodos, createTodo, updateTodo, deleteTodo, the       *)
(* start-up code (init) and checkErr, over one MongoDB collection.        *)
(*                                                                         *)
(* Strings that the code inspects character by character (the path        *)
(* identifier, the title) are sequences of one-character strings.         *)
(* An ObjectId is a sequence of 12 bytes, as bson.ObjectId is.            *)
(*                                                                         *)
(* The collection is reached through gopkg.in/mgo.v2 with the session the *)
(* code obtains from mgo.Dial, which is in safe mode (the code never      *)
(* calls SetSafe(nil)); in safe mode Update and RemoveId return           *)
(* mgo.ErrNotFound when no document matches, and an update document       *)
(* without $-operators replaces the matched document, keeping only _id.   *)
(***************************************************************************)
EXTENDS Integers, Sequences, FiniteSets, TLC

VARIABLES pc, store, counter, now, req, resp, before, called, fresh, removed, fatalAt

vars == <<pc, store, counter, now, req, resp, before, called, fresh, removed, fatalAt>>

(* ------------------------------ bounds -------------------------------- *)

\* number of ObjectIds the process generates (Create requests reaching line 104)
MaxIds == 2

(* ------------------------- program constants -------------------------- *)

StatusProcessing == 102
StatusOK == 200
StatusCreated == 201
StatusBadRequest == 400

\* the zero time.Time, what a missing created_at decodes to
ZeroTime == 0

(* ----------------------- strings and identifiers ---------------------- *)

HexLower == <<"0", "1", "2", "3", "4", "5", "6", "7", "8", "9", "a", "b", "c", "d", "e", "f">>
HexUpper == <<"0", "1", "2", "3", "4", "5", "6", "7", "8", "9", "A", "B", "C", "D", "E", "F">>

\* unicode.IsSpace on the characters the model uses
IsSpace(ch) == ch \in {" ", "\t", "\n", "\r", "\f"}

RECURSIVE TrimLeft(_)
TrimLeft(s) == IF s # <<>> /\ IsSpace(Head(s)) THEN TrimLeft(Tail(s)) ELSE s

RECURSIVE TrimRight(_)
TrimRight(s) == IF s # <<>> /\ IsSpace(s[Len(s)]) THEN TrimRight(SubSeq(s, 1, Len(s) - 1)) ELSE s

\* strings.TrimSpace
TrimSpace(s) == TrimRight(TrimLeft(s))

\* the value of every hex digit, lower or upper case
HexValue ==
    [ch \in {HexLower[i] : i \in 1..16} \cup {HexUpper[i] : i \in 1..16} |->
        IF \E i \in 1..16 : HexLower[i] = ch
        THEN (CHOOSE i \in 1..16 : HexLower[i] = ch) - 1
        ELSE (CHOOSE i \in 1..16 : HexUpper[i] = ch) - 1]

\* value of one hex digit, -1 when the character is no hex digit (encoding/hex fromHexChar)
FromHexChar(ch) == IF ch \in DOMAIN HexValue THEN HexValue[ch] ELSE -1

\* bson.IsObjectIdHex: 24 characters that hex.DecodeString accepts
IsObjectIdHex(s) == Len(s) = 24 /\ \A i \in 1..Len(s) : FromHexChar(s[i]) >= 0

\* bson.ObjectIdHex: the 12 bytes a 24-character hex string encodes
ObjectIdHex(s) == [i \in 1..12 |-> FromHexChar(s[2 * i - 1]) * 16 + FromHexChar(s[2 * i])]

\* bson.ObjectId.Hex: lower-case hex of the 12 bytes
Hex(oid) == [i \in 1..(2 * Len(oid)) |->
                IF i % 2 = 1 THEN HexLower[(oid[(i + 1) \div 2] \div 16) + 1]
                             ELSE HexLower[(oid[i \div 2] % 16) + 1]]

\* bson.NewObjectId: 4 bytes of time, 3 of machine id, 2 of pid, 3 of counter
NewObjectId(t, c) ==
    <<0, 0, t \div 256, t % 256>> \o <<171, 205, 239>> \o <<18, 52>> \o <<0, c \div 256, c % 256>>

(* ------------------------------ the store ----------------------------- *)

\* position of the document with this _id in the collection, 0 when there is none
IndexOf(c, id) == IF \E i \in 1..Len(c) : c[i]._id = id
                  THEN CHOOSE i \in 1..Len(c) : c[i]._id = id
                  ELSE 0

\* bson encoding of a todoModel (lines 32-37): every field is written
Marshal(tm) ==
    [_id |-> tm.ID, title |-> tm.Title, completed |-> tm.Completed, created_at |-> tm.CreatedAt]

\* bson decoding into a fresh todoModel: a field the document lacks keeps its zero value
Unmarshal(d) ==
    [ID        |-> d._id,
     Title     |-> IF "title" \in DOMAIN d THEN d.title ELSE <<>>,
     Completed |-> IF "completed" \in DOMAIN d THEN d.completed ELSE FALSE,
     CreatedAt |-> IF "created_at" \in DOMAIN d THEN d.created_at ELSE ZeroTime]

\* Collection.Find(bson.M{}).All: every document, in natural order
FindAll(c, fail) ==
    IF fail THEN [err |-> "transport", docs |-> <<>>]
    ELSE [err |-> "nil", docs |-> [i \in 1..Len(c) |-> Unmarshal(c[i])]]

\* Collection.Insert
Insert(c, doc, fail) ==
    IF fail THEN [err |-> "transport", c |-> c]
    ELSE [err |-> "nil", c |-> Append(c, doc)]

\* RemoveId on a session that is not in safe mode: no error when nothing matches
RemoveIdUnsafe(c, id, fail) ==
    IF fail THEN [err |-> "transport", c |-> c]
    ELSE [err |-> "nil", c |-> SelectSeq(c, LAMBDA d : d._id # id)]

\* RemoveId whose selector is lost: the first document goes
RemoveIdFirst(c, id, fail) ==
    IF fail THEN [err |-> "transport", c |-> c]
    ELSE IF IndexOf(c, id) = 0 THEN [err |-> "ErrNotFound", c |-> c]
    ELSE [err |-> "nil", c |-> Tail(c)]

\* Collection.RemoveId in safe mode: ErrNotFound when nothing matches
RemoveId(c, id, fail) ==
    IF fail THEN [err |-> "transport", c |-> c]
    ELSE IF IndexOf(c, id) = 0 THEN [err |-> "ErrNotFound", c |-> c]
    ELSE [err |-> "nil",
          c |-> SubSeq(c, 1, IndexOf(c, id) - 1) \o SubSeq(c, IndexOf(c, id) + 1, Len(c))]

\* Collection.Upsert in place of Update: a document is inserted when nothing matches
UpdateUpsert(c, id, upd, fail) ==
    IF fail THEN [err |-> "transport", c |-> c]
    ELSE IF IndexOf(c, id) = 0
    THEN [err |-> "nil",
          c |-> Append(c, [_id |-> id, title |-> upd.title, completed |-> upd.completed])]
    ELSE [err |-> "nil",
          c |-> [c EXCEPT ![IndexOf(c, id)] =
                    [_id |-> id, title |-> upd.title, completed |-> upd.completed]]]

\* Collection.Update(selector by _id, update) in safe mode: ErrNotFound when nothing
\* matches; the update document of line 175 has no $-operator, so it replaces the
\* matched document and only _id is kept
Update(c, id, upd, fail) ==
    IF fail THEN [err |-> "transport", c |-> c]
    ELSE IF IndexOf(c, id) = 0 THEN [err |-> "ErrNotFound", c |-> c]
    ELSE [err |-> "nil",
          c |-> [c EXCEPT ![IndexOf(c, id)] =
                    [_id |-> id, title |-> upd.title, completed |-> upd.completed]]]

(* ------------------------- requests and responses --------------------- *)

\* a request body: one json.Decoder cannot decode into a todo, or one it can
NoBody == [parses |-> FALSE, title |-> <<>>, completed |-> FALSE]

Titles == {<<>>, <<" ">>, <<"a">>}

Bodies == {NoBody} \cup [parses : {TRUE}, title : Titles, completed : BOOLEAN]

\* json.NewDecoder(r.Body).Decode(&t): the id and created_at of the body are not read
\* by any handler, so the todo keeps their zero values
Decode(body) ==
    [err |-> ~body.parses,
     t   |-> [ID |-> <<>>, Title |-> body.title, Completed |-> body.completed,
              CreatedAt |-> ZeroTime]]

\* what rnd.JSON writes: the status and the payload's fields
JSON(status, message, error, data, todo_id) ==
    [status |-> status, message |-> message, error |-> error, data |-> data,
     todo_id |-> todo_id]

NoResponse == JSON(0, "", "none", <<>>, <<>>)

Request(op, id, body, fail) == [op |-> op, id |-> id, body |-> body, fail |-> fail]

(* ------------------------------ handlers ------------------------------ *)

\* the todo of lines 75-80 for one stored todoModel
View(tm) ==
    [ID |-> Hex(tm.ID), Title |-> tm.Title, Completed |-> tm.Completed,
     CreatedAt |-> tm.CreatedAt]

\* fetchTodos, lines 61-86
fetchTodos(c, fail) ==
    LET r == FindAll(c, fail) IN
    IF r.err # "nil"
    THEN [resp |-> JSON(StatusProcessing, "Error fetching todos", r.err, <<>>, <<>>),
          c |-> c, called |-> TRUE]
    ELSE [resp |-> JSON(StatusOK, "", "none", [i \in 1..Len(r.docs) |-> View(r.docs[i])], <<>>),
          c |-> c, called |-> TRUE]

\* the title check left out
TitleMissingNever(title) == FALSE

\* the check of lines 96 and 165
TitleMissing(title) == title = <<>>

\* the todoModel built with the body's completed flag
NewTodoModelKeepsCompleted(t, id, time) ==
    [ID |-> id, Title |-> t.Title, Completed |-> t.Completed, CreatedAt |-> time]

\* the todoModel of lines 103-108
NewTodoModel(t, id, time) ==
    [ID |-> id, Title |-> t.Title, Completed |-> FALSE, CreatedAt |-> time]

\* createTodo, lines 88-122; id and time are what bson.NewObjectId() and time.Now()
\* return when the handler reaches them
createTodo(c, body, id, time, fail) ==
    LET dec == Decode(body) IN
    IF dec.err
    THEN [resp |-> JSON(StatusProcessing, "", "json", <<>>, <<>>), c |-> c, called |-> FALSE]
    ELSE IF TitleMissing(dec.t.Title)
    THEN [resp |-> JSON(StatusBadRequest, "Title is required", "none", <<>>, <<>>),
          c |-> c, called |-> FALSE]
    ELSE LET tm == NewTodoModel(dec.t, id, time)
             r  == Insert(c, Marshal(tm), fail) IN
         IF r.err # "nil"
         THEN [resp |-> JSON(StatusProcessing, "Error creating todo", r.err, <<>>, <<>>),
               c |-> r.c, called |-> TRUE]
         ELSE [resp |-> JSON(StatusCreated, "Todo created successfully", "none", <<>>,
                             Hex(tm.ID)),
               c |-> r.c, called |-> TRUE]

\* the identifier check by length alone
ValidPathIdLengthOnly(raw) == Len(TrimSpace(raw)) = 24

\* the identifier check of lines 125-132 and 149-156
ValidPathId(raw) == IsObjectIdHex(TrimSpace(raw))

\* deleteTodo, lines 124-146 (line 135 names todoID, which nothing declares; the
\* identifier the handler holds is id)
deleteTodo(c, raw, fail) ==
    LET id == TrimSpace(raw) IN
    IF ~ValidPathId(raw)
    THEN [resp |-> JSON(StatusBadRequest, "Invalid todo id", "none", <<>>, <<>>),
          c |-> c, called |-> FALSE]
    ELSE LET r == RemoveId(c, ObjectIdHex(id), fail) IN
         IF r.err # "nil"
         THEN [resp |-> JSON(StatusProcessing, "Error deleting todo", r.err, <<>>, <<>>),
               c |-> r.c, called |-> TRUE]
         ELSE [resp |-> JSON(StatusOK, "Todo deleted successfully", "none", <<>>, <<>>),
               c |-> r.c, called |-> TRUE]

\* updateTodo, lines 148-182; on success the handler writes nothing, and net/http
\* then answers 200 with an empty body
updateTodo(c, raw, body, fail) ==
    LET id == TrimSpace(raw) IN
    IF ~ValidPathId(raw)
    THEN [resp |-> JSON(StatusBadRequest, "Invalid todo id", "none", <<>>, <<>>),
          c |-> c, called |-> FALSE]
    ELSE LET dec == Decode(body) IN
         IF dec.err
         THEN [resp |-> JSON(StatusProcessing, "", "json", <<>>, <<>>),
               c |-> c, called |-> FALSE]
         ELSE IF TitleMissing(dec.t.Title)
         THEN [resp |-> JSON(StatusBadRequest, "Title is required", "none", <<>>, <<>>),
               c |-> c, called |-> FALSE]
         ELSE LET r == Update(c, ObjectIdHex(id),
                              [title |-> dec.t.Title, completed |-> dec.t.Completed], fail) IN
              IF r.err # "nil"
              THEN [resp |-> JSON(StatusProcessing, "Error updating todo", r.err, <<>>, <<>>),
                    c |-> r.c, called |-> TRUE]
              ELSE [resp |-> JSON(StatusOK, "", "none", <<>>, <<>>),
                    c |-> r.c, called |-> TRUE]

(* ------------------------------- inputs ------------------------------- *)

\* a well-formed identifier that NewObjectId never returns
AbsentId == [i \in 1..12 |-> 255]

\* well-formed identifier strings: those of the stored documents and an absent one
WellFormedIds(c) == {Hex(c[i]._id) : i \in 1..Len(c)} \cup {Hex(AbsentId)}

\* path identifiers of the requests: well-formed ones, the same between white space,
\* and malformed ones (too short, not hex)
PathIds(c) ==
    WellFormedIds(c)
    \cup {<<" ">> \o h \o <<"\t">> : h \in WellFormedIds(c)}
    \cup {<<"a", "b", "c">>, [i \in 1..24 |-> "z"]}

(* ------------------------------- actions ------------------------------ *)

\* the process before init() ran, the collection empty
Init ==
    /\ pc = "init"
    /\ store = <<>>
    /\ counter = 0
    /\ now = 1
    /\ req = Request("none", <<>>, NoBody, FALSE)
    /\ resp = NoResponse
    /\ before = <<>>
    /\ called = FALSE
    /\ fresh = {}
    /\ removed = {}
    /\ fatalAt = "none"

\* checkErr, lines 231-235: log.Fatal ends the process when err is not nil
checkErr(err, where) ==
    IF err
    THEN pc' = "exited" /\ fatalAt' = where
    ELSE pc' = "serving" /\ fatalAt' = fatalAt

\* init, lines 48-54: mgo.Dial and checkErr
Dial ==
    /\ pc = "init"
    /\ \E err \in BOOLEAN : checkErr(err, "init")
    /\ UNCHANGED <<store, counter, now, req, resp, before, called, fresh, removed>>

\* one request served by the handler the router gives it; r is the handler's result
Serve(request, r) ==
    /\ req' = request
    /\ resp' = r.resp
    /\ before' = store
    /\ store' = r.c
    /\ called' = r.called

\* the documents created with 201 whose identifier no Update or Delete has matched since
Untouched(r, raw) ==
    IF r.called /\ r.resp.error = "none"
    THEN {f \in fresh : ObjectIdHex(f.id) # ObjectIdHex(TrimSpace(raw))}
    ELSE fresh

\* GET /: homeHandler, lines 56-59; err is what rnd.Template returns
Home ==
    /\ pc = "serving"
    /\ \E err \in BOOLEAN :
          /\ checkErr(err, "homeHandler")
          /\ Serve(Request("Home", <<>>, NoBody, err),
                   [resp |-> JSON(StatusOK, "", "none", <<>>, <<>>), c |-> store,
                    called |-> FALSE])
    /\ UNCHANGED <<counter, now, fresh, removed>>

\* GET /todo/
List ==
    /\ pc = "serving"
    /\ \E fail \in BOOLEAN : Serve(Request("List", <<>>, NoBody, fail), fetchTodos(store, fail))
    /\ UNCHANGED <<pc, counter, now, fresh, removed, fatalAt>>

\* POST /todo/; bson.NewObjectId and time.Now are reached only past the two checks,
\* and the clock has moved on at the next reading
Create ==
    /\ pc = "serving"
    /\ \E body \in Bodies, fail \in BOOLEAN :
       \E r \in {createTodo(store, body, NewObjectId(now, counter + 1), now, fail)} :
          /\ fail => r.called
          /\ r.called => counter < MaxIds
          /\ Serve(Request("Create", <<>>, body, fail), r)
          /\ counter' = IF r.called THEN counter + 1 ELSE counter
          /\ now' = IF r.called THEN now + 1 ELSE now
          /\ fresh' = IF r.resp.status = StatusCreated
                      THEN fresh \cup {[id |-> r.resp.todo_id, title |-> body.title]}
                      ELSE fresh
    /\ UNCHANGED <<pc, removed, fatalAt>>

\* PUT /todo/{id}
UpdateReq ==
    /\ pc = "serving"
    /\ \E raw \in PathIds(store), body \in Bodies, fail \in BOOLEAN :
       \E r \in {updateTodo(store, raw, body, fail)} :
          /\ fail => r.called
          /\ Serve(Request("Update", raw, body, fail), r)
          /\ fresh' = Untouched(r, raw)
    /\ UNCHANGED <<pc, counter, now, removed, fatalAt>>

\* DELETE /todo/{id}
DeleteReq ==
    /\ pc = "serving"
    /\ \E raw \in PathIds(store), fail \in BOOLEAN :
       \E r \in {deleteTodo(store, raw, fail)} :
          /\ fail => r.called
          /\ Serve(Request("Delete", raw, NoBody, fail), r)
          /\ fresh' = Untouched(r, raw)
          /\ removed' = IF r.resp.status = StatusOK
                        THEN removed \cup {ObjectIdHex(TrimSpace(raw))}
                        ELSE removed
    /\ UNCHANGED <<pc, counter, now, fatalAt>>

\* main, lines 211-214: the interrupt signal and srv.Shutdown
Interrupt ==
    /\ pc = "serving"
    /\ pc' = "stopped"
    /\ UNCHANGED <<store, counter, now, req, resp, before, called, fresh, removed, fatalAt>>

Next == Dial \/ Home \/ List \/ Create \/ UpdateReq \/ DeleteReq \/ Interrupt

Spec == Init /\ [][Next]_vars

(* ------------------------------- claims ------------------------------- *)

\* the identifier a request with a well-formed path identifier names
PathId == ObjectIdHex(TrimSpace(req.id))

\* what a List answered without a store failure returns for a collection
Listed(c) == [i \in 1..Len(c) |-> View(Unmarshal(c[i]))]

\* C1: a Create with a non-empty title that the store accepts answers 201 with the
\* identifier of a new document carrying that title and completed = false, whatever the
\* body's completed flag; a List answered afterwards, with no Update or Delete of the
\* document in between, returns an entry with that identifier, that title and
\* completed = false
C1_CreateThenList ==
    /\ (req.op = "Create" /\ req.body.parses /\ req.body.title # <<>> /\ ~req.fail)
          => /\ resp.status = StatusCreated
             /\ [id |-> resp.todo_id, title |-> req.body.title] \in fresh
             /\ Len(store) = Len(before) + 1
             /\ View(Unmarshal(store[Len(store)])).ID = resp.todo_id
             /\ View(Unmarshal(store[Len(store)])).Title = req.body.title
             /\ View(Unmarshal(store[Len(store)])).Completed = FALSE
    /\ (req.op = "List" /\ ~req.fail)
          => /\ resp.status = StatusOK
             /\ \A f \in fresh : \E i \in 1..Len(resp.data) :
                   /\ resp.data[i].ID = f.id
                   /\ resp.data[i].Title = f.title
                   /\ resp.data[i].Completed = FALSE

\* C1 witness: a List answered with two documents, one of them created and untouched
\* and the other one updated since
C1_Witness ==
    /\ req.op = "List" /\ resp.status = StatusOK
    /\ Len(resp.data) = 2 /\ Cardinality(fresh) = 1
    /\ \E i \in 1..2 : resp.data[i].Completed

\* C2: a Create whose title is empty or only white space answers 400 and inserts nothing
C2_BlankTitleRejected ==
    (req.op = "Create" /\ req.body.parses /\ TrimSpace(req.body.title) = <<>>)
       => (resp.status = StatusBadRequest /\ store = before)

\* C3 as stated: an Update or Delete whose path identifier is not a well-formed
\* identifier encoding answers 400 without a store operation; stated for the requests
\* that nothing else in the handler stops (a Delete, an Update whose body parses and
\* has a title)
C3_MalformedIdRejected ==
    (/\ req.op \in {"Update", "Delete"}
     /\ ~IsObjectIdHex(req.id)
     /\ req.op = "Update" => (req.body.parses /\ req.body.title # <<>>))
       => (resp.status = StatusBadRequest /\ ~called /\ store = before)

\* C3 amended: an Update or Delete whose path identifier, with the white space around
\* it removed, is not a well-formed identifier encoding answers 400 without a store
\* operation and leaves the collection as it was, whatever the body
C3_MalformedTrimmedIdRejected ==
    (req.op \in {"Update", "Delete"} /\ ~IsObjectIdHex(TrimSpace(req.id)))
       => (resp.status = StatusBadRequest /\ ~called /\ store = before)

\* C3 witness: an Update with a malformed identifier and a body that would pass, on a
\* collection that holds a document
C3_Witness ==
    /\ req.op = "Update" /\ ~IsObjectIdHex(TrimSpace(req.id))
    /\ req.body.parses /\ req.body.title # <<>>
    /\ Len(before) > 0 /\ resp.status = StatusBadRequest

\* the case of C4: an Update with a well-formed identifier that matches no document, a
\* parseable body and a non-empty title, the store reachable
C4_Case ==
    /\ req.op = "Update" /\ IsObjectIdHex(req.id)
    /\ IndexOf(before, PathId) = 0
    /\ req.body.parses /\ req.body.title # <<>> /\ ~req.fail

C5_Case ==
    /\ req.op = "Delete" /\ IsObjectIdHex(req.id)
    /\ IndexOf(before, PathId) = 0 /\ ~req.fail

\* every document stored before the request is listed unchanged after it
C5_NothingLost ==
    \A i \in 1..Len(before) : \E j \in 1..Len(store) :
        Listed(store)[j] = Listed(before)[i]

C6_UpdateKeepsCreatedAt ==
    (req.op = "Update" /\ called /\ resp.status = StatusOK /\ IndexOf(before, PathId) # 0)
       => /\ Len(store) = Len(before)
          /\ \A i \in 1..Len(before) :
                IF before[i]._id = PathId
                THEN Unmarshal(store[i]) =
                        [Unmarshal(before[i]) EXCEPT !.Title = req.body.title,
                                                     !.Completed = req.body.completed]
                ELSE store[i] = before[i]

\* C7: a Create or Update whose body cannot be parsed answers 400 and leaves the
\* collection as it was
C7_MalformedBodyIs400 ==
    (req.op \in {"Create", "Update"} /\ ~req.body.parses)
       => (resp.status = StatusBadRequest /\ store = before)

\* C8: a Delete of an existing document that the store carries out answers 200 and
\* removes exactly that document; every other document is listed unchanged, and the
\* identifier is in no later state of the collection, so in no later List
C8_DeleteRemovesExactlyOne ==
    /\ (req.op = "Delete" /\ IsObjectIdHex(TrimSpace(req.id))
          /\ IndexOf(before, PathId) # 0 /\ ~req.fail)
          => /\ resp.status = StatusOK
             /\ store = SelectSeq(before, LAMBDA d : d._id # PathId)
             /\ Len(store) = Len(before) - 1
             /\ Listed(store) = SelectSeq(Listed(before), LAMBDA v : v.ID # Hex(PathId))
    /\ \A i \in 1..Len(store) : store[i]._id \notin removed
    /\ (req.op = "List" /\ resp.status = StatusOK)
          => \A i \in 1..Len(resp.data) : \A id \in removed : resp.data[i].ID # Hex(id)

\* C8 witness: the second of two documents deleted
C8_Witness ==
    /\ req.op = "Delete" /\ resp.status = StatusOK
    /\ Len(before) = 2 /\ before[2]._id = PathId /\ Len(store) = 1

\* C9: every stored document has a non-empty title
C9_TitlesNonEmpty ==
    \A i \in 1..Len(store) : "title" \in DOMAIN store[i] /\ store[i].title # <<>>

\* C9 witness: two documents stored, the last request an Update that changed one
C9_Witness ==
    /\ Len(store) = 2 /\ req.op = "Update" /\ resp.status = StatusOK /\ store # before

\* C10: the process ends on an error only at start-up, never inside a handler
C10_FatalOnlyAtStartup == pc = "exited" => fatalAt = "init"

====
